---- MODULE Spec2Model ----
(***************************************************************************)
(* Model of the hybrid memory service.                                     *)
(*                                                                         *)
(* Part 1 (specifications Spec and FairSpec): the batched ingestion loop   *)
(* of local-test-deployment/qdrant_service_v3_batched.py: add_memory puts  *)
(* an item (request, future) on batch_queue and awaits the future;         *)
(* batch_processor collects items into a batch and processes it.           *)
(*                                                                         *)
(* The service runs on one asyncio event loop: a coroutine runs until its  *)
(* next await.  batch_processor awaits only in wait_for(batch_queue.get()) *)
(* and in its two sleeps; from the end of the collection loop to the next  *)
(* await its code is synchronous.  The model keeps the stages of that      *)
(* synchronous stretch as separate steps (classification, embedding, one   *)
(* step per point built, upsert) and lets no other coroutine step while    *)
(* the loop is inside it (LoopSuspended).                                  *)
(*                                                                         *)
(* Time is counted in ticks of half a BATCH_TIMEOUT (50 ms).               *)
(*                                                                         *)
(* Part 2 (specification StoreSpec): the record store.  add_memory,        *)
(* improve_classifiers_async and add_memories_batch of src/qdrant_service  *)
(* (collection user_preferences_v4) and the point building and upsert of   *)
(* the batched loop (collection user_preferences_v2), on requests drawn    *)
(* from small sets.  Strings are sequences of tokens; a test `word in      *)
(* text.lower()` is the test that a token of the text, lower-cased, is the *)
(* word.  The collections live on disk and outlive the process; a restart  *)
(* gives the interpreter a new hash seed and loses the background tasks.   *)
(* Specification EdgeSpec is the same service on requests at the edges of  *)
(* the request type (an empty text, a body without text, a text of several *)
(* words).                                                                 *)
(*                                                                         *)
(* Part 3 (specification ClassifierSpec): the classifier functions         *)
(* get_classifiers and extract_classifiers, applied to inputs drawn from   *)
(* small sets.                                                             *)
(*                                                                         *)
(* Part 4 (specification SearchSpec): search of src/qdrant_service on a    *)
(* filled collection.  The similarity of the query with an embedded string *)
(* is an integer of 1..MaxScore chosen per search; the index answers a     *)
(* query with the best points of a space, best first.                      *)
(***************************************************************************)
EXTENDS Integers, Sequences, FiniteSets, TLC

\* Number of add_memory calls of a run (bound of the model).
MaxItems == 3

\* Maximum batch size.  The source sets 10 (BATCH_SIZE, line 25); the loop is
\* parametric in it and the model is checked with a small value.
BATCH_SIZE == 2

\* BATCH_TIMEOUT = 0.1 s, in ticks of 50 ms.
BATCH_TIMEOUT == 2

\* Number of callers cancelled in a run (bound of the model).
MaxCancels == 1

\* Number of memories submitted to the store in a run (bound of the model).
MaxOps == 2

\* Length of the request list of add_memories_batch and of a batch of the
\* batched loop in the store model (bound of the model).
MaxBatchLen == 2

\* Similarity scores are 1..MaxScore (bound of the model).
MaxScore == 3

\* Search limits are 1..MaxLimit (bound of the model).
MaxLimit == 2

\* Number of collaborator calls (classifier, embedder, index) that raise in a
\* run (bound of the model).
MaxFailures == 1

Items == 1..MaxItems

VARIABLES
    batch_queue,  \* asyncio.Queue: sequence of item ids, FIFO
    nextId,       \* number of add_memory calls made so far
    fut,          \* item -> state of its future
    futErr,       \* item -> the exception its future carries ("none" if none)
    caller,       \* item -> position of the add_memory coroutine that owns it
    pc,           \* position of batch_processor
    batch,        \* batch_processor's local list `batch` (item ids)
    bi,           \* index of the point-building loop (lines 214-247)
    remaining,    \* max(0, deadline - time.time()), in ticks
    age,          \* ticks since the first item of `batch` was taken, counted up
                  \* to BATCH_TIMEOUT
    log,          \* history: one record per processed batch
    lastClose,    \* history: length, age and remaining time at the close of the
                  \* batch being processed (zero while a batch is collected)
    badSet        \* history: items on whose done future the loop called set_result

batchVars == <<batch_queue, nextId, fut, futErr, caller, pc, batch, bi,
               remaining, age, log, lastClose, badSet>>

VARIABLES
    store,        \* collection user_preferences_v4: point id -> [vector, payload]
    store_v2,     \* collection user_preferences_v2 (batched service)
    tasks,        \* improve_classifiers_async tasks created and not yet run (the
                  \* arguments of each; tasks with equal arguments are one element)
    hashSeed,     \* the process's string-hash seed (PYTHONHASHSEED)
    useService,   \* USE_CLASSIFIER_SERVICE
    ops,          \* number of memories submitted for ingestion so far
    response      \* what the last request answered, what the last background
                  \* task was given and found in the collection, or the calls
                  \* the batched loop made for its last batch

storeVars == <<store, store_v2, tasks, hashSeed, useService, ops, response>>

vars == <<batchVars, storeVars>>

Range(s) == {s[k] : k \in 1..Len(s)}

\* The positions at which batch_processor is suspended in an await.
LoopSuspended == pc \in {"collect", "idle_sleep", "error_sleep"}

Done(i) == fut[i] \in {"result", "exception", "cancelled"}

NoClose == [len |-> 0, age |-> 0, rem |-> 0]

\* The collaborator failures and the cancellations of the run so far.
Failures == Cardinality({k \in 1..Len(log) :
               log[k].outcome \in {"ClassifierError", "EmbeddingError", "IndexFailure"}})

Cancels == Cardinality({i \in Items : caller[i] = "cancelled"})

-----------------------------------------------------------------------------
(* Strings, hashing, topic inference and heuristics (pure functions) *)

\* Python's None for an Optional[str] field.
NoneT == <<"#None">>

\* The tokens of the model's strings.
Alphabet == <<":", "u", "y", "Eat", "food", "None", "movies", "u1",
               "I have a severe peanut allergy">>

Users == {<<"u">>, <<"u", ":", "Eat">>}
Texts == {<<"y">>, <<"Eat", ":", "y">>}
Topics == {NoneT, <<"food">>}
Types == {"stable", "contextual"}

\* req.classifiers: None and [] behave alike in the code (both are falsy) and
\* are both the empty sequence here.
ProvidedOptions == {<<>>, <<"c1">>, <<"c1", "c2">>, <<"c1", "c2", "c3">>}

\* AddMemoryRequest of src/qdrant_service.py, lines 86-91.
Requests == [user_id : Users, text : Texts, topic : Topics, type : Types,
             classifiers : ProvidedOptions]

\* AddMemoryRequest of the batched service, lines 83-87.
V3Requests == [user_id : Users, text : Texts, topic : Topics, type : {"stable"}]

\* A request with a text of several words, none of them a food word.
AllergyRequest ==
    [user_id |-> <<"u1">>, text |-> <<"I have a severe peanut allergy">>, topic |-> NoneT,
     type |-> "stable", classifiers |-> <<>>]

\* A request whose text is the empty string.
EmptyTextRequest ==
    [user_id |-> <<"u">>, text |-> <<>>, topic |-> NoneT, type |-> "stable",
     classifiers |-> <<>>]

\* A request body without the required field text.
MissingTextBody ==
    [user_id |-> <<"u">>, text |-> NoneT, topic |-> NoneT, type |-> "stable",
     classifiers |-> <<>>]

\* AddMemoryRequest, lines 86-91 (83-87 in the batched service): the validation
\* the framework runs before the handler.  user_id and text are required and
\* are strings; `str` sets no minimum length.
Validates(body) == body.user_id # NoneT /\ body.text # NoneT

\* The requests the store model draws: a part of the requests, to keep the
\* requests and the lists of requests few.
SingleRequests ==
    {r \in Requests :
        \/ /\ r.type = "stable" /\ Len(r.classifiers) \in {0, 2}
           /\ r.user_id = <<"u", ":", "Eat">> => (r.text = <<"y">> /\ r.topic = <<"food">>)
        \/ r.user_id = <<"u">> /\ r.text = <<"y">> /\ r.topic = NoneT}
      \cup {MissingTextBody}

\* Requests at the edges of the request type, and one plain request.
EdgeRequests ==
    {AllergyRequest, EmptyTextRequest, MissingTextBody,
     [user_id |-> <<"u">>, text |-> <<"y">>, topic |-> NoneT, type |-> "stable",
      classifiers |-> <<>>]}

BatchRequests == {r \in Requests :
                    /\ r.user_id = <<"u">> /\ r.topic = NoneT /\ r.type = "stable"
                    /\ Len(r.classifiers) \in {0, 2}}

V3BatchRequests == {r \in V3Requests : r.user_id = <<"u">> /\ r.topic = NoneT}

\* Requests of the batched service: an empty text, a plain text, a food text.
V3EdgeRequests ==
    {[user_id |-> <<"u">>, text |-> <<>>, topic |-> NoneT, type |-> "stable"],
     [user_id |-> <<"u">>, text |-> <<"y">>, topic |-> NoneT, type |-> "stable"],
     [user_id |-> <<"u">>, text |-> <<"Eat", ":", "y">>, topic |-> NoneT, type |-> "stable"]}

\* Classifier lists a classifier service may answer with.
LlmLists == {<<"l1">>, <<"l1", "l2">>, <<"l1", "l2", "l3">>}

\* Classifier pairs batch_extract_classifiers returns (always 2 after padding).
ClsPairs == {<<"l1", "l2">>, <<"l3", "l3">>}

\* str.lower() on one token.
Lower(tok) ==
    IF tok = "Eat" THEN "eat"
    ELSE IF tok = "I have a severe peanut allergy" THEN "i have a severe peanut allergy"
    ELSE tok

\* The words of a lower-cased token.
Words(tok) ==
    IF tok = "i have a severe peanut allergy"
      THEN {"i", "have", "a", "severe", "peanut", "allergy"}
      ELSE {tok}

\* any(word in text.lower() for word in words)
ContainsAny(text, words) == \E k \in 1..Len(text) : Words(Lower(text[k])) \cap words # {}

\* str(topic) inside the f-string: None prints as "None".
Str(topic) == IF topic = NoneT THEN <<"None">> ELSE topic

\* f"{user_id}:{text}:{topic}"
KeyString(user_id, text, topic) == user_id \o <<":">> \o text \o <<":">> \o Str(topic)

TokenCode(tok) == CHOOSE k \in 1..Len(Alphabet) : Alphabet[k] = tok

HashBase == Len(Alphabet) + 1

\* The string read as a number in base HashBase: one value per string.
RECURSIVE Enc(_)
Enc(str) == IF str = <<>> THEN 0 ELSE TokenCode(Head(str)) + HashBase * Enc(Tail(str))

\* hash(str): a signed value that is a function of the string and of the
\* process's hash seed, without collisions on the strings of the model.
StrHash(str) == IF hashSeed = 0 THEN Enc(str) ELSE 0 - (Enc(str) + hashSeed)

\* The id space: 2**63 in the source, 2^30 here (32-bit integers).
IdSpace == 2^30

\* hash(f"{user_id}:{text}:{topic}") % (2**63)
PointId(user_id, text, topic) == StrHash(KeyString(user_id, text, topic)) % IdSpace

\* `x or y` on an Optional[str]: None and "" are falsy.
Truthy(x) == x # NoneT /\ x # <<>>

\* infer_topic of src/qdrant_service.py.
infer_topic(text) ==
    IF ContainsAny(text, {"food", "restaurant", "cuisine", "meal", "eat", "allergy",
                          "vegetarian"}) THEN <<"food">>
    ELSE IF ContainsAny(text, {"movie", "film", "cinema"}) THEN <<"movies">>
    ELSE IF ContainsAny(text, {"music", "song", "artist"}) THEN <<"music">>
    ELSE NoneT

\* infer_topic of the batched service.
infer_topic_v3(text) ==
    IF ContainsAny(text, {"food", "restaurant", "cuisine", "meal", "dinner", "lunch",
                          "breakfast", "eat", "allergy", "vegetarian"}) THEN <<"food">>
    ELSE IF ContainsAny(text, {"movie", "film", "cinema", "director", "actor"})
         THEN <<"movies">>
    ELSE IF ContainsAny(text, {"music", "song", "artist", "album", "band"})
         THEN <<"music">>
    ELSE NoneT

simple_heuristic_classifiers(text) ==
    IF ContainsAny(text, {"food", "eat", "meal", "dinner", "lunch", "breakfast",
                          "restaurant", "cuisine"})
    THEN IF ContainsAny(text, {"allergy", "allergic"})
              THEN <<"dietary restriction", "health condition">>
         ELSE IF ContainsAny(text, {"vegetarian", "vegan"})
              THEN <<"dietary preference", "lifestyle">>
         ELSE IF ContainsAny(text, {"love", "like", "enjoy", "favorite"})
              THEN <<"food preference", "taste">>
         ELSE IF ContainsAny(text, {"hate", "dislike", "avoid"})
              THEN <<"food aversion", "taste">>
         ELSE <<"food preference", "dietary">>
    ELSE IF ContainsAny(text, {"movie", "film", "cinema", "director", "actor"})
         THEN <<"entertainment preference", "media">>
    ELSE IF ContainsAny(text, {"music", "song", "artist", "album", "band"})
         THEN <<"music preference", "entertainment">>
    ELSE <<"personal preference", "general">>

\* A classifier label as the encoder sees it: a string like any text (here a
\* text of one token).
AsTexts(labels) == [k \in 1..Len(labels) |-> <<labels[k]>>]

\* embedding_model.encode on one string: a function of the string.
Emb(x) == <<"emb", x>>

\* embedding_model.encode on a list of strings.
Encode(xs) == [k \in 1..Len(xs) |-> Emb(xs[k])]

\* seq[:2]
FirstTwo(xs) == SubSeq(xs, 1, IF Len(xs) < 2 THEN Len(xs) ELSE 2)

\* client.upsert of one point: insert, or replace the point of the same id.
UpsertPoint(st, pt) ==
    [id \in DOMAIN st \cup {pt.id} |->
        IF id = pt.id THEN [vector |-> pt.vector, payload |-> pt.payload] ELSE st[id]]

\* client.upsert of a list of points, in order.
RECURSIVE UpsertAll(_, _)
UpsertAll(st, pts) == IF pts = <<>> THEN st ELSE UpsertAll(UpsertPoint(st, Head(pts)), Tail(pts))

EmptyStore == [id \in {} |-> 0]

\* No request answered yet.
NoResponse == [op |-> "none"]

\* The batched service after lifespan: the loop started, nothing queued.
Init ==
    /\ batch_queue = <<>>
    /\ nextId = 0
    /\ fut = [i \in Items |-> "none"]
    /\ futErr = [i \in Items |-> "none"]
    /\ caller = [i \in Items |-> "idle"]
    /\ pc = "collect"
    /\ batch = <<>>
    /\ bi = 1
    /\ remaining = BATCH_TIMEOUT
    /\ age = 0
    /\ log = <<>>
    /\ lastClose = NoClose
    /\ badSet = {}
    /\ store = EmptyStore
    /\ store_v2 = EmptyStore
    /\ tasks = {}
    /\ hashSeed = 0
    /\ useService = TRUE
    /\ ops = 0
    /\ response = NoResponse

\* lifespan of src/qdrant_service.py: a new process with an empty collection;
\* the hash seed is the interpreter's, USE_CLASSIFIER_SERVICE (line 23) is the
\* value of the environment.  The batched loop is at rest.
StoreInit ==
    /\ batch_queue = <<>>
    /\ nextId = 0
    /\ fut = [i \in Items |-> "none"]
    /\ futErr = [i \in Items |-> "none"]
    /\ caller = [i \in Items |-> "idle"]
    /\ pc = "collect"
    /\ batch = <<>>
    /\ bi = 1
    /\ remaining = BATCH_TIMEOUT
    /\ age = 0
    /\ log = <<>>
    /\ lastClose = NoClose
    /\ badSet = {}
    /\ store = EmptyStore
    /\ store_v2 = EmptyStore
    /\ tasks = {}
    /\ hashSeed \in 0..1
    /\ useService \in BOOLEAN
    /\ ops = 0
    /\ response = NoResponse

-----------------------------------------------------------------------------
(* add_memory, lines 263-282 *)

\* lines 268-278: create the future, put the item on the queue, await the future.
AddMemory ==
    /\ LoopSuspended
    /\ nextId < MaxItems
    /\ nextId' = nextId + 1
    /\ fut' = [fut EXCEPT ![nextId + 1] = "pending"]
    /\ caller' = [caller EXCEPT ![nextId + 1] = "waiting"]
    /\ batch_queue' = Append(batch_queue, nextId + 1)
    /\ UNCHANGED <<futErr, pc, batch, bi, remaining, age, log, lastClose, badSet>>
    /\ UNCHANGED storeVars

\* line 278-282: the awaited future is done: return its result, or turn its
\* exception into HTTP 500.
ResumeCaller(i) ==
    /\ LoopSuspended
    /\ caller[i] = "waiting"
    /\ fut[i] \in {"result", "exception"}
    /\ caller' = [caller EXCEPT ![i] = IF fut[i] = "result" THEN "returned" ELSE "failed500"]
    /\ UNCHANGED <<batch_queue, nextId, fut, futErr, pc, batch, bi, remaining, age,
                   log, lastClose, badSet>>
    /\ UNCHANGED storeVars

\* line 278: the task awaiting the future is cancelled; asyncio cancels the
\* future it waits on and CancelledError (not an Exception) leaves add_memory.
CancelCaller(i) ==
    /\ LoopSuspended
    /\ caller[i] = "waiting"
    /\ fut[i] = "pending"
    /\ Cancels < MaxCancels
    /\ fut' = [fut EXCEPT ![i] = "cancelled"]
    /\ caller' = [caller EXCEPT ![i] = "cancelled"]
    /\ UNCHANGED <<batch_queue, nextId, futErr, pc, batch, bi, remaining, age,
                   log, lastClose, badSet>>
    /\ UNCHANGED storeVars

-----------------------------------------------------------------------------
(* batch_processor, lines 168-261 *)

\* lines 174-175: batch = [], deadline = time.time() + BATCH_TIMEOUT.
NewRound ==
    /\ batch' = <<>>
    /\ remaining' = BATCH_TIMEOUT
    /\ age' = 0
    /\ bi' = 1
    /\ lastClose' = NoClose
    /\ pc' = "collect"

\* lines 178, 193-197: the collection loop ends with a non-empty batch.
CloseBatch(b) ==
    /\ lastClose' = [len |-> Len(b), age |-> age, rem |-> remaining]
    /\ pc' = "classify"

\* Mutant of BatchOpen: the loop condition off by one (<= for <).
BatchOpenOffByOne(b) == Len(b) <= BATCH_SIZE

\* line 178: the loop condition, evaluated after an item was appended.
BatchOpen(b) == Len(b) < BATCH_SIZE

\* Mutant of GetItem: an item is taken whatever the loop is doing.
GetItemWhileBusy ==
    /\ batch_queue # <<>>
    /\ batch_queue' = Tail(batch_queue)
    /\ batch' = Append(batch, Head(batch_queue))
    /\ UNCHANGED <<nextId, fut, futErr, caller, pc, bi, remaining, age, log, lastClose,
                   badSet>>
    /\ UNCHANGED storeVars

\* lines 184-185: wait_for(batch_queue.get()) returns an item.
GetItem ==
    /\ pc = "collect"
    /\ batch_queue # <<>>
    /\ batch_queue' = Tail(batch_queue)
    /\ batch' = Append(batch, Head(batch_queue))
    /\ IF BatchOpen(batch')
         THEN /\ pc' = "collect"
              /\ UNCHANGED lastClose
         ELSE CloseBatch(batch')
    /\ age' = IF batch = <<>> THEN 0 ELSE age
    /\ UNCHANGED <<nextId, fut, futErr, caller, bi, remaining, log, badSet>>
    /\ UNCHANGED storeVars

\* Mutant of TimeoutExpired: the wait for an item gives up before the deadline.
TimeoutExpiredEarly == TRUE

\* line 179-184: timeout = max(0.001, deadline - time.time()) is positive, so
\* the test of line 180 never breaks; wait_for raises TimeoutError once the
\* queue stayed empty for `timeout`, that is not before the deadline.
TimeoutExpired == remaining = 0

\* Mutant of AfterCollect: the test `if not batch` of line 189 is missing.
AfterCollectNoIdle == CloseBatch(batch)

\* lines 189-197: after the collection loop: idle on an empty batch, else
\* process the batch.
AfterCollect ==
    IF batch = <<>>
      THEN /\ pc' = "idle_sleep"
           /\ UNCHANGED lastClose
      ELSE CloseBatch(batch)

\* lines 186-187: TimeoutError ends the collection loop.
GetTimeout ==
    /\ pc = "collect"
    /\ batch_queue = <<>>
    /\ TimeoutExpired
    /\ AfterCollect
    /\ UNCHANGED <<batch_queue, nextId, fut, futErr, caller, batch, bi, remaining,
                   age, log, badSet>>
    /\ UNCHANGED storeVars

\* lines 190-191: await asyncio.sleep(0.01); continue.
IdleWake ==
    /\ pc = "idle_sleep"
    /\ NewRound
    /\ UNCHANGED <<batch_queue, nextId, fut, futErr, caller, log, badSet>>
    /\ UNCHANGED storeVars

\* Mutant of FailWaiters: the handler sets no exception.
FailWaitersNone(e) == UNCHANGED <<fut, futErr>>

\* lines 258-260: set the exception on every item of the batch not yet done.
FailWaiters(e) ==
    /\ fut' = [i \in Items |->
                 IF i \in Range(batch) /\ ~Done(i) THEN "exception" ELSE fut[i]]
    /\ futErr' = [i \in Items |->
                 IF i \in Range(batch) /\ ~Done(i) THEN e ELSE futErr[i]]

\* lines 255-261: except Exception as e: fail the waiters, then sleep 0.1 s.
ExceptHandler(e) ==
    /\ FailWaiters(e)
    /\ log' = Append(log, [items |-> batch, outcome |-> e])
    /\ pc' = "error_sleep"

\* line 200: batch_extract_classifiers(texts) returns or raises.
Classify ==
    /\ pc = "classify"
    /\ \/ /\ pc' = "embed"
          /\ UNCHANGED <<fut, futErr, log>>
       \/ /\ Failures < MaxFailures
          /\ ExceptHandler("ClassifierError")
    /\ UNCHANGED <<batch_queue, nextId, caller, batch, bi, remaining, age,
                   lastClose, badSet>>
    /\ UNCHANGED storeVars

\* lines 203-208: embedding_model.encode(all_texts_to_embed) returns or raises.
Embed ==
    /\ pc = "embed"
    /\ \/ /\ pc' = IF batch = <<>> THEN "upsert" ELSE "build"
          /\ UNCHANGED <<fut, futErr, log>>
       \/ /\ Failures < MaxFailures
          /\ ExceptHandler("EmbeddingError")
    /\ UNCHANGED <<batch_queue, nextId, caller, batch, bi, remaining, age,
                   lastClose, badSet>>
    /\ UNCHANGED storeVars

\* lines 214-247: one iteration of the loop over the batch: build the point of
\* item batch[bi] and call set_result on its future.  set_result on a future
\* that is done (cancelled by its caller) raises InvalidStateError.
BuildPoint ==
    /\ pc = "build"
    /\ bi <= Len(batch)
    /\ IF fut[batch[bi]] = "pending"
         THEN /\ fut' = [fut EXCEPT ![batch[bi]] = "result"]
              /\ bi' = bi + 1
              /\ pc' = IF bi = Len(batch) THEN "upsert" ELSE "build"
              /\ UNCHANGED <<futErr, log, badSet>>
         ELSE /\ badSet' = badSet \cup {batch[bi]}
              /\ ExceptHandler("InvalidStateError")
              /\ UNCHANGED bi
    /\ UNCHANGED <<batch_queue, nextId, caller, batch, remaining, age, lastClose>>
    /\ UNCHANGED storeVars

\* lines 250-253 and the next iteration's lines 174-175: client.upsert returns
\* (and the loop starts its next round) or raises.
Upsert ==
    /\ pc = "upsert"
    /\ \/ /\ log' = Append(log, [items |-> batch, outcome |-> "ok"])
          /\ NewRound
          /\ UNCHANGED <<fut, futErr>>
       \/ /\ Failures < MaxFailures
          /\ ExceptHandler("IndexFailure")
          /\ UNCHANGED <<batch, bi, remaining, age, lastClose>>
    /\ UNCHANGED <<batch_queue, nextId, caller, badSet>>
    /\ UNCHANGED storeVars

\* line 261 and the next iteration's lines 174-175.
ErrorWake ==
    /\ pc = "error_sleep"
    /\ NewRound
    /\ UNCHANGED <<batch_queue, nextId, fut, futErr, caller, log, badSet>>
    /\ UNCHANGED storeVars

\* Time passes while the loop collects: the deadline comes nearer and the
\* batch's first item gets older.
Tick ==
    /\ pc = "collect"
    /\ remaining > 0 \/ (batch # <<>> /\ age < BATCH_TIMEOUT)
    /\ remaining' = IF remaining > 0 THEN remaining - 1 ELSE 0
    /\ age' = IF batch # <<>> /\ age < BATCH_TIMEOUT THEN age + 1 ELSE age
    /\ UNCHANGED <<batch_queue, nextId, fut, futErr, caller, pc, batch, bi, log,
                   lastClose, badSet>>
    /\ UNCHANGED storeVars

Next ==
    \/ AddMemory
    \/ \E i \in Items : ResumeCaller(i)
    \/ \E i \in Items : CancelCaller(i)
    \/ GetItem
    \/ GetTimeout
    \/ IdleWake
    \/ Classify
    \/ Embed
    \/ BuildPoint
    \/ Upsert
    \/ ErrorWake
    \/ Tick

Spec == Init /\ [][Next]_vars

-----------------------------------------------------------------------------
(* The record store: src/qdrant_service.py and the points of the batched loop *)

\* The classifier service's answers: an error, or status 200 with a list.
ServiceResponses ==
    {[status |-> 500, classifiers |-> <<>>]}
        \cup {[status |-> 200, classifiers |-> l] : l \in LlmLists}

NamedVectors(embeddings, idx) ==
    [text |-> embeddings[idx + 1],
     classifier_1 |-> embeddings[idx + 2],
     classifier_2 |-> embeddings[idx + 3]]

\* add_memory, lines 170-203: the point built for a request.
AddMemoryPoint(req) ==
    LET classifiers == IF Len(req.classifiers) >= 2
                         THEN FirstTwo(req.classifiers)
                         ELSE simple_heuristic_classifiers(req.text)
        embeddings == Encode(<<req.text>> \o AsTexts(classifiers))
        topic == IF Truthy(req.topic) THEN req.topic ELSE infer_topic(req.text)
    IN  [id |-> PointId(req.user_id, req.text, topic),
         vector |-> NamedVectors(embeddings, 0),
         payload |-> [text |-> req.text,
                      user_id |-> req.user_id,
                      topic |-> topic,
                      type |-> req.type,
                      classifiers |-> classifiers,
                      classifier_source |->
                          IF req.classifiers # <<>> THEN "provided" ELSE "heuristic"]]

\* add_memory, lines 209-215: the body of the answer.
AddMemoryResponse(req) ==
    [status |-> "success",
     topic |-> AddMemoryPoint(req).payload.topic,
     classifiers |-> AddMemoryPoint(req).payload.classifiers,
     classifier_source |-> IF req.classifiers # <<>> THEN "provided" ELSE "heuristic",
     async_improvement |-> req.classifiers = <<>> /\ useService]

\* add_memory, lines 165-218: a body that does not validate is answered 422
\* before the handler runs; else upsert the point and schedule the background
\* improvement, or answer 500 when the upsert raises.
SvcAddMemory(req) ==
    /\ ops < MaxOps
    /\ ops' = ops + 1
    /\ \/ /\ ~Validates(req)
          /\ UNCHANGED <<store, tasks>>
          /\ response' = [op |-> "add_memory", code |-> 422]
       \/ /\ Validates(req)
          /\ store' = UpsertPoint(store, AddMemoryPoint(req))
          /\ tasks' = IF req.classifiers = <<>> /\ useService
                        THEN tasks \cup {[user_id |-> req.user_id,
                                          text |-> req.text,
                                          topic |-> AddMemoryPoint(req).payload.topic,
                                          point_id |-> AddMemoryPoint(req).id]}
                        ELSE tasks
          /\ response' = [op |-> "add_memory", code |-> 200, provided |-> Len(req.classifiers),
                          id |-> AddMemoryPoint(req).id,
                          body |-> AddMemoryResponse(req)]
       \/ /\ Validates(req)
          /\ UNCHANGED <<store, tasks>>
          /\ response' = [op |-> "add_memory", code |-> 500]
    /\ UNCHANGED <<store_v2, hashSeed, useService>>
    /\ UNCHANGED batchVars

\* improve_classifiers_async, lines 230-258: the point written by the task.
ImprovedPoint(t, llm_classifiers) ==
    LET embeddings == Encode(<<t.text>> \o AsTexts(llm_classifiers))
    IN  [id |-> t.point_id,
         vector |-> NamedVectors(embeddings, 0),
         payload |-> [text |-> t.text,
                      user_id |-> t.user_id,
                      topic |-> t.topic,
                      type |-> "stable",
                      classifiers |-> llm_classifiers,
                      classifier_source |-> "llm_async"]]

AfterFailedUpgradeFallback(st, t) ==
    UpsertPoint(st, ImprovedPoint(t, <<"general", "general">>))

\* improve_classifiers_async, lines 259-261: the collection after a task that
\* raised (`except Exception: pass`) or was answered a status other than 200.
AfterFailedUpgrade(st, t) == st

\* improve_classifiers_async, lines 220-261: on status 200 re-embed and upsert;
\* every exception (transport, embeddings[2] out of range, upsert) is swallowed.
\* response records the task, the reply it got and the record it found.
ImproveAsync(t, r) ==
    /\ t \in tasks
    /\ tasks' = tasks \ {t}
    /\ IF r.status = 200 /\ Len(r.classifiers) >= 2
         THEN \/ /\ store' = UpsertPoint(store, ImprovedPoint(t, r.classifiers))
                 /\ response' = [op |-> "improve", task |-> t, reply |-> r,
                                 before |-> store[t.point_id], upserted |-> TRUE]
              \/ /\ store' = AfterFailedUpgrade(store, t)
                 /\ response' = [op |-> "improve", task |-> t, reply |-> r,
                                 before |-> store[t.point_id], upserted |-> FALSE]
         ELSE /\ store' = AfterFailedUpgrade(store, t)
              /\ response' = [op |-> "improve", task |-> t, reply |-> r,
                              before |-> store[t.point_id], upserted |-> FALSE]
    /\ UNCHANGED <<store_v2, hashSeed, useService, ops>>
    /\ UNCHANGED batchVars

RECURSIVE AllLabels(_)
AllLabels(all_classifiers) ==
    IF all_classifiers = <<>> THEN <<>>
    ELSE AsTexts(Head(all_classifiers)) \o AllLabels(Tail(all_classifiers))

TextsThenLabels(texts, all_classifiers) == texts \o AllLabels(all_classifiers)

\* all_texts_to_embed: each text followed by its classifiers.
RECURSIVE TextsToEmbed(_, _)
TextsToEmbed(texts, all_classifiers) ==
    IF texts = <<>> THEN <<>>
    ELSE <<Head(texts)>> \o AsTexts(Head(all_classifiers))
            \o TextsToEmbed(Tail(texts), Tail(all_classifiers))

\* add_memories_batch, lines 271-303: the classifiers of every memory.
BatchClassifiers(reqs, r) ==
    [k \in 1..Len(reqs) |->
        IF Len(reqs[k].classifiers) >= 2 THEN FirstTwo(reqs[k].classifiers)
        ELSE IF useService /\ r.status = 200 THEN r.classifiers
        ELSE simple_heuristic_classifiers(reqs[k].text)]

BuildPointsSameEmbeddings(reqs, all_classifiers, all_embeddings, topics) ==
    [k \in 1..Len(reqs) |->
        [id |-> PointId(reqs[k].user_id, reqs[k].text, topics[k]),
         vector |-> NamedVectors(all_embeddings, 0),
         payload |-> [text |-> reqs[k].text,
                      user_id |-> reqs[k].user_id,
                      topic |-> topics[k],
                      type |-> reqs[k].type,
                      classifiers |-> all_classifiers[k],
                      classifier_source |-> "absent"]]]

\* lines 312-336 (add_memories_batch) and 210-240 (batch_processor): the points
\* of a list of requests, topics[k] being `topic or infer_topic(text)` of
\* request k; point k takes embeddings 3(k-1)+1 .. 3(k-1)+3.
BuildPoints(reqs, all_classifiers, all_embeddings, topics) ==
    [k \in 1..Len(reqs) |->
        [id |-> PointId(reqs[k].user_id, reqs[k].text, topics[k]),
         vector |-> NamedVectors(all_embeddings, 3 * (k - 1)),
         payload |-> [text |-> reqs[k].text,
                      user_id |-> reqs[k].user_id,
                      topic |-> topics[k],
                      type |-> reqs[k].type,
                      classifiers |-> all_classifiers[k],
                      classifier_source |-> "absent"]]]

RequestLists(R) == UNION {[1..n -> R] : n \in 1..MaxBatchLen}

\* add_memories_batch, lines 263-347.  An index past the end of all_embeddings
\* or a failing upsert answers 500.  response records the memories of the
\* request and the points upserted.
SvcAddMemoriesBatch(reqs, r) ==
    /\ ops + Len(reqs) <= MaxOps
    /\ ops' = ops + Len(reqs)
    /\ LET all_classifiers == BatchClassifiers(reqs, r)
           texts == [k \in 1..Len(reqs) |-> reqs[k].text]
           all_embeddings == Encode(TextsToEmbed(texts, all_classifiers))
           topics == [k \in 1..Len(reqs) |->
                        IF Truthy(reqs[k].topic) THEN reqs[k].topic
                                                 ELSE infer_topic(reqs[k].text)]
       IN  \/ /\ 3 * Len(reqs) <= Len(all_embeddings)
              /\ store' = UpsertAll(store, BuildPoints(reqs, all_classifiers,
                                                       all_embeddings, topics))
              /\ response' = [op |-> "add_memories_batch", code |-> 200, reqs |-> reqs,
                              points |-> BuildPoints(reqs, all_classifiers,
                                                     all_embeddings, topics)]
           \/ /\ UNCHANGED store
              /\ response' = [op |-> "add_memories_batch", code |-> 500]
    /\ UNCHANGED <<store_v2, tasks, hashSeed, useService>>
    /\ UNCHANGED batchVars

\* batch_processor, lines 196-250, on the requests of one batch: cls is what
\* batch_extract_classifiers returns.  A failing upsert stores nothing.
\* response records the calls made for the batch: the input of each
\* embedding_model.encode, the points of each client.upsert and the payload
\* of each set_result.
V3ProcessBatch(reqs, cls) ==
    /\ ops + Len(reqs) <= MaxOps
    /\ ops' = ops + Len(reqs)
    /\ LET texts == [k \in 1..Len(reqs) |-> reqs[k].text]
           all_texts_to_embed == TextsToEmbed(texts, cls)
           all_embeddings == Encode(all_texts_to_embed)
           topics == [k \in 1..Len(reqs) |->
                        IF Truthy(reqs[k].topic) THEN reqs[k].topic
                                                 ELSE infer_topic_v3(reqs[k].text)]
           points == BuildPoints(reqs, cls, all_embeddings, topics)
       IN  /\ \/ store_v2' = UpsertAll(store_v2, points)
              \/ UNCHANGED store_v2
           /\ response' = [op |-> "batch_processor", reqs |-> reqs, classifiers |-> cls,
                           encode_calls |-> <<all_texts_to_embed>>,
                           upsert_calls |-> <<points>>,
                           results |-> [k \in 1..Len(reqs) |->
                                          [status |-> "success", topic |-> topics[k],
                                           classifiers |-> cls[k]]]]
    /\ UNCHANGED <<store, tasks, hashSeed, useService>>
    /\ UNCHANGED batchVars

\* lifespan, lines 32-52 (35-66 in the batched service): the process is started
\* again.  QdrantClient(path="./qdrant_data") reopens the data on disk and
\* get_collection finds the collection, so the records stay; the background
\* tasks of the old process are gone; the new interpreter has its own hash
\* seed (str hashes are salted per process unless PYTHONHASHSEED is set).
Restart ==
    /\ hashSeed' \in 0..1
    /\ tasks' = {}
    /\ response' = NoResponse
    /\ UNCHANGED <<store, store_v2, useService, ops>>
    /\ UNCHANGED batchVars

StoreNext ==
    \/ Restart
    \/ \E req \in SingleRequests : SvcAddMemory(req)
    \/ \E t \in tasks : \E r \in ServiceResponses : ImproveAsync(t, r)
    \/ \E reqs \in RequestLists(BatchRequests) : \E r \in ServiceResponses :
          SvcAddMemoriesBatch(reqs, r)
    \/ \E reqs \in RequestLists(V3BatchRequests) :
          \E cls \in [1..Len(reqs) -> ClsPairs] : V3ProcessBatch(reqs, cls)

StoreSpec == StoreInit /\ [][StoreNext]_vars

\* The same service on the requests at the edges of the request type.
EdgeNext ==
    \/ Restart
    \/ \E req \in EdgeRequests : SvcAddMemory(req)
    \/ \E t \in tasks : \E r \in ServiceResponses : ImproveAsync(t, r)
    \/ \E reqs \in RequestLists(V3EdgeRequests) :
          \E cls \in [1..Len(reqs) -> ClsPairs] : V3ProcessBatch(reqs, cls)

EdgeSpec == StoreInit /\ [][EdgeNext]_vars

-----------------------------------------------------------------------------
(* Classifier resolution and label padding (pure functions), applied to     *)
(* inputs drawn from small sets: specification ClassifierSpec               *)

\* What http_client.post(.../classify) can give get_classifiers: status 0 is
\* no answer (transport error or timeout: the call raises); field tells
\* whether the body is JSON with a "classifiers" key; a null value of the key
\* is NoneT.
ClassifyReplies ==
    {[status |-> st, field |-> FALSE, classifiers |-> <<>>] : st \in {0, 500, 200}}
        \cup {[status |-> 200, field |-> TRUE, classifiers |-> l] :
                 l \in LlmLists \cup {<<>>, NoneT}}

ServicePathRaisesOnTransport(reply) == reply.status = 0

\* get_classifiers, lines 140-149: whether an exception leaves the service
\* path.  The bare `except: pass` catches what the post, the status test and
\* response.json()["classifiers"] raise.
ServicePathRaises(reply) == FALSE

get_classifiers_service_first(text, provided_classifiers, reply) ==
    IF useService /\ reply.status = 200 /\ reply.field THEN reply.classifiers
    ELSE IF Len(provided_classifiers) >= 2 THEN FirstTwo(provided_classifiers)
    ELSE simple_heuristic_classifiers(text)

\* get_classifiers, lines 131-152: the list returned.
get_classifiers(text, provided_classifiers, reply) ==
    IF Len(provided_classifiers) >= 2 THEN FirstTwo(provided_classifiers)
    ELSE IF useService /\ reply.status = 200 /\ reply.field THEN reply.classifiers
    ELSE simple_heuristic_classifiers(text)

\* One call of get_classifiers.
GetClassifiers(text, provided_classifiers, reply) ==
    /\ response' = [op |-> "get_classifiers", text |-> text,
                    provided |-> provided_classifiers, reply |-> reply,
                    raised |-> (/\ Len(provided_classifiers) < 2
                                /\ useService
                                /\ ServicePathRaises(reply)),
                    result |-> get_classifiers(text, provided_classifiers, reply)]
    /\ UNCHANGED <<store, store_v2, tasks, hashSeed, useService, ops>>
    /\ UNCHANGED batchVars

\* The labels parsed from the language model's output, before fallback and
\* padding: none, one, two or more.
ParsedLabels == LlmLists \cup {<<>>}

\* `'food' in text.lower() or 'eat' in text.lower()`
FoodText(text) == ContainsAny(text, {"food", "eat"})

RECURSIVE PadServiceGeneral(_)
PadServiceGeneral(classifiers) ==
    IF Len(classifiers) < 2
      THEN PadServiceGeneral(Append(classifiers, "general"))
      ELSE classifiers

\* classifier_service.py, lines 127-128: the padding loop.
RECURSIVE PadService(_)
PadService(classifiers) ==
    IF Len(classifiers) < 2
      THEN PadService(Append(classifiers,
                             IF classifiers # <<>> THEN classifiers[1] ELSE "general"))
      ELSE classifiers

\* A label of 50 characters or more.
LongLabel == "a very long sentence about preferences of the user in general"

\* The candidate labels the parsing of the generated text (lines 94-100) can
\* leave: plain labels, a numbered label, a number alone, an empty text, a
\* long label, a question, a label followed by a second line, and sentences
\* that begin with a sentence starter.
RawLabels ==
    ParsedLabels \cup {<<"1. l1", "l2">>, <<"1.", "l1">>, <<"">>, <<LongLabel, "l1">>,
                       <<"l1", "is this a topic?">>, <<"l1\nStatement", "l2">>,
                       <<"Please provide more context">>,
                       <<"Here are the topics", "l1", "l2">>}

\* len(c) of the model's labels.
StrLen(c) ==
    CASE c = "" -> 0
      [] c = LongLabel -> 61
      [] c = "is this a topic?" -> 16
      [] c = "Please provide more context" -> 27
      [] c = "Here are the topics" -> 19
      [] c = "1. l1" -> 5
      [] c = "l1\nStatement" -> 12
      [] OTHER -> 2

\* '?' in c
HasQuestionMark(c) == c = "is this a topic?"

\* c.lstrip('0123456789. '), line 106.
LStripNumbering(c) == IF c = "1. l1" THEN "l1" ELSE IF c = "1." THEN "" ELSE c

\* c.split('\n')[0].strip(), line 108.
FirstLine(c) == IF c = "l1\nStatement" THEN "l1" ELSE c

\* The prefixes of line 110.
SentenceStarters == <<"Please", "I will", "Let me", "Here are", "The topics">>

\* c.startswith(prefix)
StartsWith(c, prefix) ==
    \/ c = "Please provide more context" /\ prefix = "Please"
    \/ c = "Here are the topics" /\ prefix = "Here are"

\* Lines 110-112: whether the loop over the prefixes leaves the label to the
\* test of line 114.  The `continue` of line 112 is a statement of the inner
\* loop: it goes on with the next prefix.
RECURSIVE ReachesKeepTest(_, _)
ReachesKeepTest(c, prefixes) ==
    IF prefixes = <<>> THEN TRUE
    ELSE IF StartsWith(c, Head(prefixes)) THEN ReachesKeepTest(c, Tail(prefixes))
    ELSE ReachesKeepTest(c, Tail(prefixes))

\* Line 114: the label is appended to cleaned.
Kept(c) ==
    /\ ReachesKeepTest(c, SentenceStarters)
    /\ StrLen(c) > 0 /\ StrLen(c) < 50 /\ ~HasQuestionMark(c)

\* Lines 103-115: the clean-up loop.
CleanLabels(classifiers) ==
    SelectSeq([k \in 1..Len(classifiers) |-> FirstLine(LStripNumbering(classifiers[k]))],
              Kept)

\* classifier_service.py, extract_classifiers_single, lines 117-130, on the
\* cleaned labels.
extract_classifiers_single(cleaned, text) ==
    LET first == FirstTwo(cleaned)
        classifiers == IF first = <<>>
                         THEN IF FoodText(text) THEN <<"food preference", "dietary">>
                                                ELSE <<"personal preference", "general">>
                         ELSE first
    IN  FirstTwo(PadService(classifiers))

\* qdrant_service_v3_batched.py lines 150-151 and qdrant_service_v2.py lines
\* 124-125: the padding loop, on a list that is not empty.
RECURSIVE PadFirst(_)
PadFirst(classifiers) ==
    IF Len(classifiers) < 2 THEN PadFirst(Append(classifiers, classifiers[1]))
                            ELSE classifiers

\* batch_extract_classifiers, lines 142-153, for one text, on the parsed labels.
batch_extract_classifiers(parsed, text) ==
    LET classifiers == IF parsed = <<>>
                         THEN IF FoodText(text) THEN <<"food preference">>
                                                ELSE <<"personal preference">>
                         ELSE parsed
    IN  FirstTwo(PadFirst(classifiers))

\* qdrant_service_v2.py, extract_classifiers, lines 115-127, on the parsed labels.
extract_classifiers(parsed, text) ==
    LET classifiers == IF parsed = <<>>
                         THEN IF FoodText(text) THEN <<"food preference">>
                                                ELSE <<"personal preference">>
                         ELSE parsed
    IN  FirstTwo(PadFirst(classifiers))

\* One call of a label extraction; response keeps its input and its result.
\* For extract_classifiers_single the candidates are the labels as parsed and
\* labels are those the clean-up leaves.
ExtractSingle(candidates, text) ==
    /\ response' = [op |-> "extract_classifiers_single", candidates |-> candidates,
                    labels |-> CleanLabels(candidates), text |-> text,
                    result |-> extract_classifiers_single(CleanLabels(candidates), text)]
    /\ UNCHANGED <<store, store_v2, tasks, hashSeed, useService, ops>>
    /\ UNCHANGED batchVars

BatchExtract(labels, text) ==
    /\ response' = [op |-> "batch_extract_classifiers", labels |-> labels,
                    text |-> text, result |-> batch_extract_classifiers(labels, text)]
    /\ UNCHANGED <<store, store_v2, tasks, hashSeed, useService, ops>>
    /\ UNCHANGED batchVars

Extract(labels, text) ==
    /\ response' = [op |-> "extract_classifiers", labels |-> labels,
                    text |-> text, result |-> extract_classifiers(labels, text)]
    /\ UNCHANGED <<store, store_v2, tasks, hashSeed, useService, ops>>
    /\ UNCHANGED batchVars

\* Texts with one word of a heuristic bucket each, next to the plain texts.
HeuristicTexts == Texts \cup {<<"food">>, <<"dinner">>, <<"director">>, <<"album">>}

\* add_memory, lines 170 and 173, for a request without classifiers and
\* without topic when the classifier service is off: the classifiers are the
\* heuristic's and the topic is the inferred one.
ClassifyAndInfer(text) ==
    /\ response' = [op |-> "classify_and_infer", text |-> text,
                    classifiers |-> simple_heuristic_classifiers(text),
                    topic |-> infer_topic(text)]
    /\ UNCHANGED <<store, store_v2, tasks, hashSeed, useService, ops>>
    /\ UNCHANGED batchVars

ClassifierNext ==
    \/ \E text \in Texts : \E provided \in ProvidedOptions : \E reply \in ClassifyReplies :
          GetClassifiers(text, provided, reply)
    \/ \E labels \in RawLabels : \E text \in Texts : ExtractSingle(labels, text)
    \/ \E labels \in ParsedLabels : \E text \in Texts : BatchExtract(labels, text)
    \/ \E labels \in ParsedLabels : \E text \in Texts : Extract(labels, text)
    \/ \E text \in HeuristicTexts : ClassifyAndInfer(text)

ClassifierSpec == StoreInit /\ [][ClassifierNext]_vars


-----------------------------------------------------------------------------
(* search of src/qdrant_service.py (lines 349-410; the batched service's    *)
(* search, lines 284-351, is the same code): specification SearchSpec       *)

\* The named vectors, in the order search queries them (line 371).
Spaces == <<"text", "classifier_1", "classifier_2">>

\* The requests that filled the collection searched.
SearchCorpus ==
    <<[user_id |-> <<"u">>, text |-> <<"y">>, topic |-> NoneT, type |-> "stable",
       classifiers |-> <<"c1", "c2">>],
      [user_id |-> <<"u">>, text |-> <<"Eat", ":", "y">>, topic |-> NoneT,
       type |-> "stable", classifiers |-> <<"c2", "c1">>],
      [user_id |-> <<"u">>, text |-> <<"y">>, topic |-> <<"movies">>,
       type |-> "stable", classifiers |-> <<"c1", "c2">>],
      [user_id |-> <<"u", ":", "Eat">>, text |-> <<"y">>, topic |-> NoneT,
       type |-> "contextual", classifiers |-> <<"c1", "c2">>]>>

\* The collection after add_memory of the first n requests of the corpus.
CorpusStore(n) == UpsertAll(EmptyStore, [k \in 1..n |-> AddMemoryPoint(SearchCorpus[k])])

\* A service with a filled collection and no request in progress.
SearchInit ==
    /\ batch_queue = <<>>
    /\ nextId = 0
    /\ fut = [i \in Items |-> "none"]
    /\ futErr = [i \in Items |-> "none"]
    /\ caller = [i \in Items |-> "idle"]
    /\ pc = "collect"
    /\ batch = <<>>
    /\ bi = 1
    /\ remaining = BATCH_TIMEOUT
    /\ age = 0
    /\ log = <<>>
    /\ lastClose = NoClose
    /\ badSet = {}
    /\ hashSeed = 0
    /\ useService = TRUE
    /\ store \in {CorpusStore(n) : n \in 0..Len(SearchCorpus)}
    /\ store_v2 = EmptyStore
    /\ tasks = {}
    /\ ops = 0
    /\ response = NoResponse

\* The strings whose embeddings the collection holds.
EmbeddedStrings(st) == {st[id].vector[sp][2] : id \in DOMAIN st, sp \in Range(Spaces)}

Scores == 1..MaxScore

\* score_threshold = None: no score is below it.
NoThreshold == 0

\* SearchRequest, lines 96-102.  domain "" is an absent domain (None and ""
\* are both falsy in line 359); "places" and "movies" are keys of topic_map,
\* "books" is not.
SearchRequests ==
    [user_id : Users, domain : {"", "places", "movies", "books"}, limit : 1..MaxLimit,
     score_threshold : {NoThreshold, MaxScore}, use_classifiers : BOOLEAN]

\* topic_map, line 360.
TopicMapKeys == {"places", "movies", "music"}

TopicOf(domain) ==
    IF domain = "places" THEN <<"food">>
    ELSE IF domain = "movies" THEN <<"movies">>
    ELSE <<"music">>

MatchesAnyUser(payload, req) ==
    (req.domain # "" /\ req.domain \in TopicMapKeys) => payload.topic = TopicOf(req.domain)

MatchesDomainAsTopic(payload, req) ==
    /\ payload.user_id = req.user_id
    /\ req.domain # "" =>
          payload.topic = (IF req.domain \in TopicMapKeys THEN TopicOf(req.domain)
                                                          ELSE <<req.domain>>)

\* query_filter, lines 355-366: user_id matches, and the topic when the domain
\* is given and is a key of topic_map.
Matches(payload, req) ==
    /\ payload.user_id = req.user_id
    /\ (req.domain # "" /\ req.domain \in TopicMapKeys) => payload.topic = TopicOf(req.domain)

\* The cosine similarity of the query with the record's vector `using`: sim
\* gives the similarity of the query with every embedded string.
ScoreOf(st, sim, id, using) == sim[st[id].vector[using][2]]

CandidatesNoThreshold(st, sim, req, using, taken) ==
    {id \in DOMAIN st \ taken : Matches(st[id].payload, req)}

\* The points query_points may still return: they pass the filter and the
\* score threshold and are not in `taken`.
Candidates(st, sim, req, using, taken) ==
    {id \in DOMAIN st \ taken :
        /\ Matches(st[id].payload, req)
        /\ ScoreOf(st, sim, id, using) >= req.score_threshold}

\* The best of a set of candidates: the highest score; of equal scores the
\* lowest or the highest id (the index does not say which).
Best(st, sim, using, ids, lowFirst) ==
    CHOOSE id \in ids : \A other \in ids \ {id} :
        \/ ScoreOf(st, sim, id, using) > ScoreOf(st, sim, other, using)
        \/ /\ ScoreOf(st, sim, id, using) = ScoreOf(st, sim, other, using)
           /\ IF lowFirst THEN id < other ELSE id > other

\* client.query_points(...).points, lines 372-380: the `limit` best points in
\* the space `using`, best first.
RECURSIVE QueryPoints(_, _, _, _, _, _, _)
QueryPoints(st, sim, req, using, limit, lowFirst, taken) ==
    LET ids == Candidates(st, sim, req, using, taken)
    IN  IF limit = 0 \/ ids = {} THEN <<>>
        ELSE LET b == Best(st, sim, using, ids, lowFirst)
             IN  <<[id |-> b, score |-> ScoreOf(st, sim, b, using)]>>
                    \o QueryPoints(st, sim, req, using, limit - 1, lowFirst, taken \cup {b})

\* The place of a record id in all_results (a dict keeps insertion order), 0
\* when it is not a key.
PlaceOf(all_results, id) ==
    IF \E k \in 1..Len(all_results) : all_results[k].id = id
      THEN CHOOSE k \in 1..Len(all_results) : all_results[k].id = id
      ELSE 0

FuseResultLast(all_results, result) ==
    LET k == PlaceOf(all_results, result.id)
    IN  IF k = 0 THEN Append(all_results, result)
        ELSE [all_results EXCEPT ![k] = result]

\* lines 383-384: one result merged into all_results.
FuseResult(all_results, result) ==
    LET k == PlaceOf(all_results, result.id)
    IN  IF k = 0 THEN Append(all_results, result)
        ELSE IF result.score > all_results[k].score
               THEN [all_results EXCEPT ![k] = result]
               ELSE all_results

\* lines 382-384: the results of one space merged into all_results.
RECURSIVE FuseResults(_, _)
FuseResults(all_results, results) ==
    IF results = <<>> THEN all_results
    ELSE FuseResults(FuseResult(all_results, Head(results)), Tail(results))

\* lines 369-384: the candidate lists of the spaces merged in order.
RECURSIVE Fuse(_)
Fuse(lists) ==
    IF lists = <<>> THEN <<>>
    ELSE FuseResults(Fuse(SubSeq(lists, 1, Len(lists) - 1)), lists[Len(lists)])

\* One result put into a list sorted by score, before the first one that does
\* not score higher.
RECURSIVE InsertByScore(_, _)
InsertByScore(result, sorted) ==
    IF sorted = <<>> THEN <<result>>
    ELSE IF Head(sorted).score > result.score
           THEN <<Head(sorted)>> \o InsertByScore(result, Tail(sorted))
           ELSE <<result>> \o sorted

\* sorted(..., key=lambda x: x.score, reverse=True), line 386: a stable sort,
\* highest score first.
RECURSIVE SortedByScore(_)
SortedByScore(results) ==
    IF results = <<>> THEN <<>>
    ELSE InsertByScore(Head(results), SortedByScore(Tail(results)))

TruncateNone(results, limit) == results

\* [:req.limit], line 386.
Truncate(results, limit) ==
    SubSeq(results, 1, IF Len(results) < limit THEN Len(results) ELSE limit)

CandidateLimitHalf(limit) == limit \div 2

\* limit=req.limit * 2, line 377.
CandidateLimit(limit) == limit * 2

\* lines 368-396: the answers of the index: one list per space in multi-vector
\* mode, the list of the text space else.
SearchLists(st, sim, req, lowFirst) ==
    IF req.use_classifiers
      THEN [k \in 1..Len(Spaces) |->
              QueryPoints(st, sim, req, Spaces[k], CandidateLimit(req.limit), lowFirst, {})]
      ELSE <<QueryPoints(st, sim, req, "text", req.limit, lowFirst, {})>>

\* lines 386 and 388: sorted_results.
SortedResults(req, lists) ==
    IF req.use_classifiers THEN Truncate(SortedByScore(Fuse(lists)), req.limit)
                           ELSE lists[1]

\* search, lines 349-410: the candidate lists and the sorted results.  sim is
\* the similarity of the query context with every embedded string, lowFirst
\* the index's order among equal scores.
Search(req, sim, lowFirst) ==
    /\ response = NoResponse
    /\ response' = [op |-> "search", req |-> req, sim |-> sim, lowFirst |-> lowFirst,
                    lists |-> SearchLists(store, sim, req, lowFirst),
                    results |-> SortedResults(req, SearchLists(store, sim, req, lowFirst))]
    /\ UNCHANGED <<store, store_v2, tasks, hashSeed, useService, ops>>
    /\ UNCHANGED batchVars

\* The answer is returned to the client.
ReturnAnswer ==
    /\ response # NoResponse
    /\ response' = NoResponse
    /\ UNCHANGED <<store, store_v2, tasks, hashSeed, useService, ops>>
    /\ UNCHANGED batchVars

SearchNext ==
    \/ /\ response = NoResponse
       /\ \E req \in SearchRequests : \E sim \in [EmbeddedStrings(store) -> Scores] :
          \E lowFirst \in BOOLEAN : Search(req, sim, lowFirst)
    \/ ReturnAnswer

SearchSpec == SearchInit /\ [][SearchNext]_vars

-----------------------------------------------------------------------------
(* Fairness: the event loop runs every coroutine that is ready, and time   *)
(* passes.  Nothing obliges a client to call add_memory or to cancel.      *)

Fairness ==
    /\ WF_vars(GetItem)
    /\ WF_vars(GetTimeout)
    /\ WF_vars(IdleWake)
    /\ WF_vars(Classify)
    /\ WF_vars(Embed)
    /\ WF_vars(BuildPoint)
    /\ WF_vars(Upsert)
    /\ WF_vars(ErrorWake)
    /\ WF_vars(Tick)
    /\ \A i \in Items : WF_vars(ResumeCaller(i))

FairSpec == Spec /\ Fairness

-----------------------------------------------------------------------------
(* Properties of the batched ingestion loop *)

LogIdx == 1..Len(log)

\* The stages whose failure comes from a collaborator, not from the batch.
ExternalFailures == {"ClassifierError", "EmbeddingError", "IndexFailure"}

\* client.upsert was called for the batch of log entry e (it returned or raised).
UpsertAttempted(e) == e.outcome \in {"ok", "IndexFailure"}

UpsertCalls == SelectSeq(log, UpsertAttempted)

\* Number of processed batches that contain item i.
Occ(i) == Cardinality({kp \in LogIdx \X (1..MaxItems) :
                          /\ kp[2] <= Len(log[kp[1]].items)
                          /\ log[kp[1]].items[kp[2]] = i})

\* The batch is being collected or processed and is not yet in the log.
InFlight(i) ==
    /\ pc \in {"collect", "classify", "embed", "build", "upsert"}
    /\ i \in Range(batch)

\* C1: if the upsert of a batch fails, every item of that batch has its future
\* resolved with that failure, and no caller of the batch gets a success payload.
C1_UpsertFailureFailsAll ==
    \A k \in LogIdx :
        log[k].outcome = "IndexFailure" =>
            \A i \in Range(log[k].items) :
                /\ fut[i] = "exception"
                /\ futErr[i] = "IndexFailure"
                /\ caller[i] # "returned"

\* C2: every future is fulfilled once: no item is processed by two batches and
\* the loop never calls set_result or set_exception on a future that is done
\* (a cancelled one included).
C2_FulfilledOnce ==
    /\ badSet = {}
    /\ \A i \in Items : Occ(i) <= 1

\* C3: a caller resumes only after the work of its batch has finished: the
\* batch's processing has ended, and a caller that resumes with a success
\* payload does so after the upsert of its batch was attempted.
C3_ResumeAfterBatchWork ==
    \A i \in Items :
        caller[i] \in {"returned", "failed500"} =>
            \E k \in LogIdx :
                /\ i \in Range(log[k].items)
                /\ caller[i] = "returned" => UpsertAttempted(log[k])

\* C4: a caller cancelled before its batch closes does not disturb the others:
\* unless a collaborator fails, every other item of the batch is upserted and
\* resolved with its success payload.
C4_CancelDoesNotDisturb ==
    \A k \in LogIdx :
        (/\ \E i \in Range(log[k].items) : fut[i] = "cancelled"
         /\ log[k].outcome \notin ExternalFailures)
        => \A j \in Range(log[k].items) :
              fut[j] # "cancelled" => fut[j] = "result" /\ log[k].outcome = "ok"

\* C5: when processing a batch raises, the loop fails the waiters of that batch
\* (each one not cancelled gets the exception) and stays in its cycle.
C5_FailureFailsWaitersAndLoopGoesOn ==
    /\ pc \in {"collect", "idle_sleep", "classify", "embed", "build", "upsert",
               "error_sleep"}
    /\ \A k \in LogIdx :
          log[k].outcome # "ok" =>
              \A i \in Range(log[k].items) :
                  \/ fut[i] = "cancelled"
                  \/ fut[i] = "exception" /\ futErr[i] = log[k].outcome

\* C6: under fair scheduling every enqueued item eventually leaves the queue,
\* its future is eventually done and its caller eventually leaves add_memory.
Unsettled(i) ==
    \/ i \in Range(batch_queue)
    \/ fut[i] = "pending"
    \/ caller[i] = "waiting"

Settled(i) ==
    /\ i \notin Range(batch_queue)
    /\ Occ(i) = 1
    /\ Done(i)
    /\ caller[i] \in {"returned", "failed500", "cancelled"}

C6_EveryItemResolved == \A i \in Items : Unsettled(i) ~> Settled(i)

C6_Witness ==
    \E i \in Items :
        /\ caller[i] = "returned"
        /\ \E j \in Items : caller[j] = "failed500"
        /\ nextId = MaxItems

\* C7: no batch holds more than BATCH_SIZE items, every enqueued item is in
\* exactly one place (the queue, the batch in hand, or one processed batch),
\* and more than BATCH_SIZE items processed without failure took at least two
\* upsert calls that together cover them all.
AllProcessedOk ==
    /\ \A i \in 1..nextId : Occ(i) = 1
    /\ \A k \in LogIdx : log[k].outcome = "ok"

C7_BatchBoundary ==
    /\ Len(batch) <= BATCH_SIZE
    /\ \A k \in LogIdx : Len(log[k].items) <= BATCH_SIZE
    /\ \A i \in 1..nextId :
          Occ(i) + (IF i \in Range(batch_queue) THEN 1 ELSE 0)
                 + (IF InFlight(i) THEN 1 ELSE 0) = 1
    /\ (nextId > BATCH_SIZE /\ AllProcessedOk) =>
          /\ Len(UpsertCalls) >= 2
          /\ UNION {Range(UpsertCalls[k].items) : k \in 1..Len(UpsertCalls)} = 1..nextId

C7_Witness ==
    /\ nextId > BATCH_SIZE
    /\ AllProcessedOk
    /\ Len(UpsertCalls) >= 2

\* C8: one item submitted and nothing else: exactly one upsert call, holding
\* that item; no empty batch is ever processed or upserted.
C8_SingleItemOneUpsert ==
    /\ \A k \in LogIdx : log[k].items # <<>>
    /\ pc \in {"classify", "embed", "build", "upsert"} => batch # <<>>
    /\ nextId <= 1 => Len(UpsertCalls) <= 1
    /\ (nextId = 1 /\ caller[1] = "returned") =>
          /\ Len(UpsertCalls) = 1
          /\ UpsertCalls[1].items = <<1>>

C8_Witness ==
    /\ nextId = 1
    /\ caller[1] = "returned"
    /\ Len(UpsertCalls) = 1
    /\ pc = "idle_sleep"

\* C9 as claimed: a batch stays open until it holds BATCH_SIZE items or
\* BATCH_TIMEOUT has elapsed since its first item was taken: a batch closed
\* below BATCH_SIZE has been open for at least BATCH_TIMEOUT since its first item.
C9_TimeoutSinceFirstItem ==
    (lastClose.len >= 1 /\ lastClose.len < BATCH_SIZE) => lastClose.age >= BATCH_TIMEOUT

\* C9 as amended: a batch is closed when it holds BATCH_SIZE items or, below
\* BATCH_SIZE, not before the deadline set at the start of the collection
\* round (BATCH_TIMEOUT after the round began, which is before the first item
\* was taken); a batch in collection holds fewer than BATCH_SIZE items.
C9_ClosedAtFullOrDeadline ==
    /\ lastClose.len >= 1 => (lastClose.len = BATCH_SIZE \/ lastClose.rem = 0)
    /\ lastClose.len <= BATCH_SIZE
    /\ pc = "collect" => Len(batch) < BATCH_SIZE

C9_Witness ==
    /\ lastClose.len >= 1
    /\ lastClose.len < BATCH_SIZE
    /\ lastClose.age >= 1
    /\ lastClose.age < BATCH_TIMEOUT
    /\ lastClose.rem = 0

-----------------------------------------------------------------------------
(* Properties of the record store *)

\* The (user_id, text, topic) a stored record or a point carries.
TripleOf(rec) == <<rec.payload.user_id, rec.payload.text, rec.payload.topic>>

\* No two records of the collection carry the same triple.
NoDuplicate(st) ==
    \A id1, id2 \in DOMAIN st : TripleOf(st[id1]) = TripleOf(st[id2]) => id1 = id2

\* C10: ingestion is idempotent.  After any sequence of adds (single adds,
\* request lists, batches of the batched loop) a collection holds at most one
\* record for a (user_id, text, topic): a triple submitted again is upserted
\* under the id of its record, in place.
C10_IdempotentIngestion ==
    /\ NoDuplicate(store)
    /\ NoDuplicate(store_v2)

-----------------------------------------------------------------------------
(* Properties of the background classifier upgrade *)

\* The record the last upgrade task was about, as it is now.
UpgradedRecord == store[response.task.point_id]

\* C11: the upgrade replaces a record only if the record was not modified since
\* the upgrade was scheduled.  add_memory schedules the upgrade for a record it
\* has just stored with classifier_source "heuristic"; a record the task finds
\* with another source (re-ingested with provided classifiers, or by a request
\* list) was written later and is left as it is.
C11_UpgradeKeepsLaterWrite ==
    (response.op = "improve" /\ response.before.payload.classifier_source # "heuristic")
        => UpgradedRecord = response.before

\* C12: a successful upgrade leaves user_id, text, topic and type of the stored
\* record as they were (the id is the key the record is found under).
C12_UpgradeFrame ==
    (response.op = "improve" /\ response.upserted)
        => /\ UpgradedRecord.payload.user_id = response.before.payload.user_id
           /\ UpgradedRecord.payload.text = response.before.payload.text
           /\ UpgradedRecord.payload.topic = response.before.payload.topic
           /\ UpgradedRecord.payload.type = response.before.payload.type

-----------------------------------------------------------------------------
(* Properties of classifier resolution *)

\* C14: every classifier list has exactly 2 entries: the list in the payload
\* of every stored record, whatever wrote it, and the list get_classifiers
\* returns, whatever the classifier service answered.
C14_TwoClassifiers ==
    /\ \A id \in DOMAIN store : Len(store[id].payload.classifiers) = 2
    /\ \A id \in DOMAIN store_v2 : Len(store_v2[id].payload.classifiers) = 2
    /\ response.op = "get_classifiers" => Len(response.result) = 2

\* The label extractions of the three services.
ExtractOps == {"extract_classifiers_single", "batch_extract_classifiers",
               "extract_classifiers"}

\* The lists an extraction falls back to when no label was produced.
FallbackLists ==
    {<<"food preference", "dietary">>, <<"personal preference", "general">>,
     <<"food preference", "food preference">>,
     <<"personal preference", "personal preference">>}

\* C15: an extraction always returns 2 labels; one label produced is returned
\* twice; no label produced gives a fallback list; two or more give the first
\* two: the second entry is a produced label or a copy of the first entry.
C15_Padding ==
    response.op \in ExtractOps
        => /\ Len(response.result) = 2
           /\ Len(response.labels) = 1
                => response.result = <<response.labels[1], response.labels[1]>>
           /\ Len(response.labels) = 0 => response.result \in FallbackLists
           /\ Len(response.labels) >= 2
                => response.result = <<response.labels[1], response.labels[2]>>

\* extract_classifiers_single was given one label and returned it twice.
C15_Witness ==
    /\ response.op = "extract_classifiers_single"
    /\ response.labels = <<"l1">>
    /\ response.result = <<"l1", "l1">>

\* The classifier service gave no usable answer: no answer at all, a status
\* other than 200, or a body without the "classifiers" key.
Unreachable(reply) == reply.status # 200 \/ ~reply.field

\* C16: fallback order.  An add_memory without provided classifiers stores the
\* heuristic's classifiers for its text and reports them with classifier_source
\* "heuristic" (whether the classifier service is enabled, reachable or not);
\* get_classifiers takes provided classifiers when there are 2, else the
\* service's answer when the service is enabled and answers, else the heuristic
\* (a function of its arguments and of USE_CLASSIFIER_SERVICE alone: it is
\* stated for every argument in the states before the first request).
C16_FallbackOrder ==
    /\ (response.op = "add_memory" /\ response.code = 200 /\ response.provided = 0)
         => /\ response.body.classifier_source = "heuristic"
            /\ response.body.classifiers =
                 simple_heuristic_classifiers(store[response.id].payload.text)
            /\ store[response.id].payload.classifiers = response.body.classifiers
            /\ store[response.id].payload.classifier_source = "heuristic"
    /\ ops = 0 =>
         \A text \in Texts : \A provided \in ProvidedOptions : \A reply \in ClassifyReplies :
            LET result == get_classifiers(text, provided, reply)
            IN  /\ Len(provided) >= 2 => result = FirstTwo(provided)
                /\ (Len(provided) < 2 /\ useService /\ ~Unreachable(reply))
                     => result = reply.classifiers
                /\ (Len(provided) < 2 /\ (~useService \/ Unreachable(reply)))
                     => result = simple_heuristic_classifiers(text)

\* With the service disabled an add_memory without classifiers answered
\* "heuristic" and scheduled no upgrade.
C16_Witness ==
    /\ response.op = "add_memory"
    /\ response.code = 200
    /\ response.provided = 0
    /\ ~useService
    /\ response.body.classifier_source = "heuristic"
    /\ store[response.id].payload.classifier_source = "heuristic"
    /\ tasks = {}

\* C17: provenance matches the classifiers stored.  add_memory reports and
\* stores classifier_source "provided" exactly when the request carried at
\* least 2 classifiers; with fewer than 2 (none, or a single one) it stores the
\* heuristic's classifiers with classifier_source "heuristic".
C17_ProvenanceMatches ==
    (response.op = "add_memory" /\ response.code = 200)
        => LET payload == store[response.id].payload
           IN  /\ response.body.classifier_source = "provided" <=> response.provided >= 2
               /\ payload.classifier_source = "provided" <=> response.provided >= 2
               /\ response.provided < 2
                    => /\ payload.classifiers = simple_heuristic_classifiers(payload.text)
                       /\ payload.classifier_source = "heuristic"
                       /\ response.body.classifier_source = "heuristic"

\* The service path of get_classifiers was taken: fewer than 2 provided
\* classifiers and the service enabled.
ServicePathTaken ==
    /\ response.op = "get_classifiers"
    /\ Len(response.provided) < 2
    /\ useService

-----------------------------------------------------------------------------
(* Multi-vector search                                                      *)

\* The scores with which a record appeared in the candidate lists.
ScoresIn(lists, id) ==
    UNION {{lists[s][j].score : j \in {j \in 1..Len(lists[s]) : lists[s][j].id = id}} :
           s \in 1..Len(lists)}

\* The greatest of a set of scores.
MaxOf(scores) == CHOOSE m \in scores : \A x \in scores : x <= m

\* The candidate lists queried in another order.
SpaceOrders == {p \in [1..Len(Spaces) -> 1..Len(Spaces)] : \A a, b \in 1..Len(Spaces) : p[a] = p[b] => a = b}

\* C19: in a multi-vector search the score returned for a record is the
\* greatest of the scores with which the record appeared in the candidate
\* lists of the three spaces, and merging the lists in any other order gives
\* every record the same score.
C19_FusionIsMax ==
    (response.op = "search" /\ response.req.use_classifiers) =>
        /\ \A k \in 1..Len(response.results) :
              /\ ScoresIn(response.lists, response.results[k].id) # {}
              /\ response.results[k].score
                    = MaxOf(ScoresIn(response.lists, response.results[k].id))
        /\ \A p \in SpaceOrders :
              Range(Fuse([k \in 1..Len(Spaces) |-> response.lists[p[k]]]))
                = Range(Fuse(response.lists))

\* A multi-vector search returned a record that appeared in the three
\* candidate lists with three different scores, the greatest of them not in
\* the space queried first.
C19_Witness ==
    /\ response.op = "search"
    /\ response.req.use_classifiers
    /\ \E k \in 1..Len(response.results) :
          /\ Cardinality(ScoresIn(response.lists, response.results[k].id)) = Len(Spaces)
          /\ \E j \in 1..Len(response.lists[1]) :
                /\ response.lists[1][j].id = response.results[k].id
                /\ response.lists[1][j].score < response.results[k].score

\* C20: a search with limit >= 1 returns at most limit entries, no record id
\* twice, ordered by score non-increasing.
C20_ResultShape ==
    (response.op = "search" /\ response.req.limit >= 1) =>
        /\ Len(response.results) <= response.req.limit
        /\ \A a, b \in 1..Len(response.results) :
              /\ response.results[a].id = response.results[b].id => a = b
              /\ a < b => response.results[a].score >= response.results[b].score

\* A multi-vector search whose spaces gave more records than the limit, the
\* same record in several spaces, returned limit entries.
C20_Witness ==
    /\ response.op = "search"
    /\ response.req.use_classifiers
    /\ Len(Fuse(response.lists)) > response.req.limit
    /\ Len(response.results) = response.req.limit
    /\ \E id \in DOMAIN store : Cardinality(ScoresIn(response.lists, id)) > 1

\* The last search's request with the domain left out.
WithoutDomain == [response.req EXCEPT !.domain = ""]

\* C21: a search with a domain of topic_map returns only records whose stored
\* topic is the topic of the domain (places: food, movies: movies, music:
\* music); a search with any other domain returns what the same search
\* without domain returns.
C21_DomainFilter ==
    response.op = "search" =>
        /\ response.req.domain \in TopicMapKeys =>
              \A k \in 1..Len(response.results) :
                  store[response.results[k].id].payload.topic = TopicOf(response.req.domain)
        /\ response.req.domain \notin TopicMapKeys =>
              response.results =
                  SortedResults(WithoutDomain,
                                SearchLists(store, response.sim, WithoutDomain,
                                            response.lowFirst))

\* A search with domain "places" returned a food record while the user has a
\* record of another topic whose text is at least as similar to the query.
C21_Witness ==
    /\ response.op = "search"
    /\ response.req.domain = "places"
    /\ response.results # <<>>
    /\ \E id \in DOMAIN store :
          /\ store[id].payload.user_id = response.req.user_id
          /\ store[id].payload.topic # <<"food">>
          /\ ScoreOf(store, response.sim, id, "text") >= response.results[1].score

\* C22: a score_threshold is passed to every query of the index: no candidate
\* of any space and no returned result scores below it.
C22_ThresholdEverywhere ==
    (response.op = "search" /\ response.req.score_threshold # NoThreshold) =>
        /\ \A s \in 1..Len(response.lists) : \A j \in 1..Len(response.lists[s]) :
              response.lists[s][j].score >= response.req.score_threshold
        /\ \A k \in 1..Len(response.results) :
              response.results[k].score >= response.req.score_threshold

\* A multi-vector search with a threshold returned a record that is below the
\* threshold in the text space and absent from the text candidates.
C22_Witness ==
    /\ response.op = "search"
    /\ response.req.use_classifiers
    /\ response.req.score_threshold # NoThreshold
    /\ \E k \in 1..Len(response.results) :
          /\ ScoreOf(store, response.sim, response.results[k].id, "text")
                < response.req.score_threshold
          /\ \A j \in 1..Len(response.lists[1]) :
                response.lists[1][j].id # response.results[k].id

\* The greatest similarity of the query with the three vectors of a record.
TrueMax(st, sim, id) == MaxOf({ScoreOf(st, sim, id, Spaces[k]) : k \in 1..Len(Spaces)})

\* The records a search is about: they pass the payload filter and reach the
\* score threshold in some space.
Eligible(st, sim, req) ==
    {id \in DOMAIN st : /\ Matches(st[id].payload, req)
                        /\ TrueMax(st, sim, id) >= req.score_threshold}

\* C26: multi-vector search is exact although each space is asked for 2 * limit
\* candidates only: the results are limit records (all of them when fewer are
\* eligible) of the eligible ones, each with its greatest score over the three
\* spaces, and no eligible record left out has a greater one.
C26_ExactTopLimit ==
    (response.op = "search" /\ response.req.use_classifiers /\ response.req.limit >= 1) =>
        LET eligible == Eligible(store, response.sim, response.req)
            returned == {response.results[k].id : k \in 1..Len(response.results)}
        IN  /\ returned \subseteq eligible
            /\ Len(response.results) =
                  (IF Cardinality(eligible) < response.req.limit
                     THEN Cardinality(eligible) ELSE response.req.limit)
            /\ \A k \in 1..Len(response.results) :
                  /\ response.results[k].score
                        = TrueMax(store, response.sim, response.results[k].id)
                  /\ \A id \in eligible \ returned :
                        TrueMax(store, response.sim, id) <= response.results[k].score

\* A multi-vector search returned a record with its greatest score although
\* the record was cut from the candidates of a space (more than 2 * limit
\* records match there) and is below its greatest score in the space queried
\* first.
C26_Witness ==
    /\ response.op = "search"
    /\ response.req.use_classifiers
    /\ \E k \in 1..Len(response.results) :
          /\ \E s \in 1..Len(Spaces) :
                /\ Len(response.lists[s]) = CandidateLimit(response.req.limit)
                /\ \A j \in 1..Len(response.lists[s]) :
                      response.lists[s][j].id # response.results[k].id
                /\ ScoreOf(store, response.sim, response.results[k].id, Spaces[s])
                      >= response.req.score_threshold
          /\ ScoreOf(store, response.sim, response.results[k].id, "text")
                < response.results[k].score

-----------------------------------------------------------------------------
(* Properties of ingestion at the edges of the request type                 *)

\* C23: with heuristics only (no provided classifiers, the classifier service
\* disabled) the memory "I have a severe peanut allergy" of user u1 is stored
\* with topic food and classifiers dietary restriction, health condition.
C23_AllergyEndToEnd ==
    (/\ response.op = "add_memory"
     /\ response.code = 200
     /\ ~useService
     /\ store[response.id].payload.text = AllergyRequest.text)
        => /\ store[response.id].payload.user_id = AllergyRequest.user_id
           /\ store[response.id].payload.topic = <<"food">>
           /\ store[response.id].payload.classifiers
                 = <<"dietary restriction", "health condition">>

\* C24: a request with an empty text is rejected with a validation failure: no
\* collection ever holds a record with an empty text (such a request is not
\* queued, embedded or upserted).
C24_EmptyTextRejected ==
    /\ \A id \in DOMAIN store : store[id].payload.text # <<>>
    /\ \A id \in DOMAIN store_v2 : store_v2[id].payload.text # <<>>

-----------------------------------------------------------------------------
(* One batch at a time                                                      *)

\* batch_processor is between the close of a batch and the end of its
\* processing (the sleep after a failure included).
Busy == pc \in {"classify", "embed", "build", "upsert", "error_sleep"}

\* C25: the loop has one batch in hand: while it collects, no closed batch is
\* pending; while a closed batch is processed it is that batch, and until the
\* processing has ended no item leaves the queue and the batch takes no item.
C25_OneBatchAtATime ==
    /\ [](pc = "collect" => lastClose = NoClose)
    /\ [](pc \in {"classify", "embed", "build", "upsert"} =>
            (batch # <<>> /\ lastClose.len = Len(batch)))
    /\ [][Busy => /\ Len(batch_queue') >= Len(batch_queue)
                  /\ batch' = batch \/ (batch' = <<>> /\ pc' = "collect")]_vars

\* A full batch is being processed while an item waits in the queue.
C25_Witness ==
    /\ pc \in {"classify", "embed", "build", "upsert"}
    /\ Len(batch) = BATCH_SIZE
    /\ batch_queue # <<>>

-----------------------------------------------------------------------------
(* Record ids                                                               *)

\* C27: the id of a record is a function of its (user_id, text, topic) alone,
\* the same in every run of the service: every stored record is found under
\* the id the running process computes for its triple.
C27_IdIsFunctionOfTriple ==
    /\ \A id \in DOMAIN store :
          id = PointId(store[id].payload.user_id, store[id].payload.text,
                       store[id].payload.topic)
    /\ \A id \in DOMAIN store_v2 :
          id = PointId(store_v2[id].payload.user_id, store_v2[id].payload.text,
                       store_v2[id].payload.topic)

\* C28: distinct (user_id, text, topic) triples give distinct hash inputs, so
\* that no add replaces a record stored for another user_id: a record keeps
\* its user_id as long as it is stored.
C28_NoOverwriteAcrossUsers ==
    [][\A id \in DOMAIN store \cap DOMAIN store' :
          store'[id].payload.user_id = store[id].payload.user_id]_vars

-----------------------------------------------------------------------------
(* The data of a batch of the batched loop                                  *)

C30_NoCrossWiring ==
    response.op = "batch_processor" =>
        /\ Len(response.reqs) \in 1..BATCH_SIZE
        /\ \A k \in 1..Len(response.reqs) :
              LET req == response.reqs[k]
                  pt == response.upsert_calls[1][k]
                  topic == IF Truthy(req.topic) THEN req.topic ELSE infer_topic_v3(req.text)
              IN  /\ pt.vector.text = Emb(req.text)
                  /\ pt.vector.classifier_1 = Emb(<<response.classifiers[k][1]>>)
                  /\ pt.vector.classifier_2 = Emb(<<response.classifiers[k][2]>>)
                  /\ pt.payload.text = req.text
                  /\ pt.payload.user_id = req.user_id
                  /\ pt.payload.topic = topic
                  /\ pt.payload.classifiers = response.classifiers[k]
                  /\ response.results[k].topic = topic
                  /\ response.results[k].classifiers = response.classifiers[k]

\* A batch of two items with different texts, topics and classifiers.
C30_Witness ==
    /\ response.op = "batch_processor"
    /\ Len(response.reqs) >= 2
    /\ response.reqs[1].text # response.reqs[2].text
    /\ response.classifiers[1] # response.classifiers[2]
    /\ response.results[1].topic # response.results[2].topic

-----------------------------------------------------------------------------
(* The points of add_memories_batch                                         *)

\* C31: in add_memories_batch, whatever the classifier service answered, the
\* point of every memory holds the embedding of the memory's own text and of
\* the memory's own stored classifiers, and a memory with at least 2
\* classifiers of its own is stored with its first two.
C31_BatchPointsOwnVectors ==
    (response.op = "add_memories_batch" /\ response.code = 200) =>
        \A k \in 1..Len(response.reqs) :
            LET req == response.reqs[k]
                pt == response.points[k]
            IN  /\ pt.payload.text = req.text
                /\ pt.vector.text = Emb(req.text)
                /\ pt.vector.classifier_1 = Emb(<<pt.payload.classifiers[1]>>)
                /\ pt.vector.classifier_2 = Emb(<<pt.payload.classifiers[2]>>)
                /\ Len(req.classifiers) >= 2 =>
                      pt.payload.classifiers = FirstTwo(req.classifiers)

-----------------------------------------------------------------------------
(* Heuristic classification and topic inference                             *)

\* The label pairs of the heuristic's food, movies and music buckets (lines
\* 109-125).
FoodBucket == {<<"dietary restriction", "health condition">>,
               <<"dietary preference", "lifestyle">>,
               <<"food preference", "taste">>, <<"food aversion", "taste">>,
               <<"food preference", "dietary">>}
MoviesBucket == {<<"entertainment preference", "media">>}
MusicBucket == {<<"music preference", "entertainment">>}

\* C32: a text the heuristic puts in the food (movies, music) bucket gets the
\* inferred topic food (movies, music).
C32_HeuristicAgreesWithTopic ==
    response.op = "classify_and_infer" =>
        /\ response.classifiers \in FoodBucket => response.topic = <<"food">>
        /\ response.classifiers \in MoviesBucket => response.topic = <<"movies">>
        /\ response.classifiers \in MusicBucket => response.topic = <<"music">>

-----------------------------------------------------------------------------
(* User isolation                                                           *)

\* C33: every record a search returns, in multi-vector or single-vector mode,
\* with or without domain, has the stored user_id of the query.
C33_UserIsolation ==
    response.op = "search" =>
        \A k \in 1..Len(response.results) :
            store[response.results[k].id].payload.user_id = response.req.user_id

\* A search returned records of its user while another user's record, of a
\* topic the filter lets through, is at least as similar to the query as the
\* best record returned.
C33_Witness ==
    /\ response.op = "search"
    /\ response.results # <<>>
    /\ \E id \in DOMAIN store :
          /\ store[id].payload.user_id # response.req.user_id
          /\ MatchesAnyUser(store[id].payload, response.req)
          /\ ScoreOf(store, response.sim, id, "text") >= response.results[1].score

-----------------------------------------------------------------------------
(* Scheduling of the background upgrade                                     *)

\* The task add_memory schedules for the record of its answer.
UpgradeScheduled == \E t \in tasks : t.point_id = response.id

\* C34: add_memory schedules the background upgrade exactly when the stored
\* classifiers are the heuristic's (fewer than 2 were provided) and the
\* classifier service is enabled; async_improvement tells whether the task was
\* scheduled; a record stored with provenance provided gets no upgrade.  The
\* converse directions are read on the first request, when no task of an
\* earlier request is pending.
C34_UpgradeScheduling ==
    (response.op = "add_memory" /\ response.code = 200) =>
        /\ (response.provided < 2 /\ useService) => UpgradeScheduled
        /\ ops = 1 =>
              /\ UpgradeScheduled => (response.provided < 2 /\ useService)
              /\ response.body.async_improvement <=> UpgradeScheduled
              /\ store[response.id].payload.classifier_source = "provided"
                    => ~UpgradeScheduled

-----------------------------------------------------------------------------
(* The label clean-up of the classifier service                             *)

\* The label begins with one of the sentence starters.
IsSentence(c) ==
    \E k \in 1..Len(SentenceStarters) : StartsWith(c, SentenceStarters[k])

\* C35: no label that begins with a sentence starter is in the list
\* extract_classifiers_single returns, and every label returned that came
\* from the candidates is non-empty, shorter than 50 characters and without
\* question mark.
C35_CleanedLabels ==
    response.op = "extract_classifiers_single" =>
        \A k \in 1..Len(response.result) :
            /\ ~IsSentence(response.result[k])
            /\ StrLen(response.result[k]) > 0
            /\ StrLen(response.result[k]) < 50
            /\ ~HasQuestionMark(response.result[k])
====
